---- MODULE Spec2Model ----
(***************************************************************************)
(* A model of bingo-card (src/src/main.rs): main parses its arguments,     *)
(* loads tiles.txt into a HashSet, reports near-duplicate tiles, writes    *)
(* one worksheet per person and saves bingo.xlsx.                          *)
(*                                                                         *)
(* A Rust String is modelled as a sequence of one-character strings.       *)
(***************************************************************************)
EXTENDS Integers, Sequences, FiniteSets, TLC

(***************************************************************************)
(* Bounds of the model                                                     *)
(***************************************************************************)
\* the longest tiles.txt (in lines) of the full program's runs
MaxTiles == 26
\* the longest tiles.txt that is combined with every argument list
SmallTiles == 3
\* the longest argument list
MaxArgs == 1
\* the longest text after --dist=
MaxDistLen == 1
\* the longest line and the number of lines of the files load_tiles is run on alone
MaxLineLen == 3
MaxLines == 2

(***************************************************************************)
(* Characters and strings                                                  *)
(***************************************************************************)
BS == "\\"
NL == "\n"
SP == " "

Str(S, n) == UNION {[1..m -> S] : m \in 0..n}

Min(a, b) == IF a < b THEN a ELSE b

\* char::is_whitespace, on the characters the model uses
IsWhite(c) == c \in {SP, NL, "\t", "\r"}

RECURSIVE TrimStart(_)
TrimStart(s) ==
    IF s # <<>> /\ IsWhite(s[1]) THEN TrimStart(Tail(s)) ELSE s

RECURSIVE TrimEnd(_)
TrimEnd(s) ==
    IF s # <<>> /\ IsWhite(s[Len(s)]) THEN TrimEnd(SubSeq(s, 1, Len(s) - 1)) ELSE s

\* a trim that leaves the whitespace at the end (str::trim_start)
TrimStartOnly(s) == TrimStart(s)
\* str::trim
Trim(s) == TrimEnd(TrimStart(s))

\* str::replace("\\n", "\n"): every non-overlapping match, left to right
RECURSIVE ReplaceEscape(_)
ReplaceEscape(s) ==
    IF Len(s) >= 2 /\ s[1] = BS /\ s[2] = "n"
    THEN <<NL>> \o ReplaceEscape(SubSeq(s, 3, Len(s)))
    ELSE IF s = <<>> THEN <<>> ELSE <<s[1]>> \o ReplaceEscape(Tail(s))

\* the closure of load_tiles' map: line.trim().replace("\\n", "\n")
NormalizeLine(line) == ReplaceEscape(Trim(line))

\* reader.lines().map(..).filter(..).collect::<HashSet<_>>(), line by line
RECURSIVE CollectTiles(_)
CollectTiles(lines) ==
    IF lines = <<>> THEN {}
    ELSE LET t == NormalizeLine(lines[1])
         IN  (IF t # <<>> THEN {t} ELSE {}) \cup CollectTiles(Tail(lines))

\* levenshtein::levenshtein(a, b): the edit distance in characters
RECURSIVE levenshtein(_, _)
levenshtein(a, b) ==
    IF a = <<>> THEN Len(b)
    ELSE IF b = <<>> THEN Len(a)
    ELSE IF a[1] = b[1] THEN levenshtein(Tail(a), Tail(b))
    ELSE 1 + Min(levenshtein(Tail(a), Tail(b)),
                 Min(levenshtein(Tail(a), b), levenshtein(a, Tail(b))))

(***************************************************************************)
(* Command line                                                            *)
(***************************************************************************)
DistPrefix == <<"-", "-", "d", "i", "s", "t", "=">>
PeoplePrefix == <<"-", "-", "p", "e", "o", "p", "l", "e", "=">>
HelpArg == <<"-", "h">>
UsageText == "Usage: bingo-card [--dist=N] [--people=NAME1,NAME2,...] [FREE_SQUARE_TEXT]"

\* starts_with
HasPrefix(s, p) == Len(s) >= Len(p) /\ SubSeq(s, 1, Len(p)) = p
\* what strip_prefix returns inside Some
StripPrefix(s, p) == SubSeq(s, Len(p) + 1, Len(s))

Digits == {"0", "1", "2", "3", "4", "5", "6", "7", "8", "9"}
DigitVal(c) ==
    CASE c = "0" -> 0 [] c = "1" -> 1 [] c = "2" -> 2 [] c = "3" -> 3
      [] c = "4" -> 4 [] c = "5" -> 5 [] c = "6" -> 6 [] c = "7" -> 7
      [] c = "8" -> 8 [] c = "9" -> 9

\* d.parse::<usize>() is Ok: an optional '+', then at least one digit, only digits
ParsesAsUsize(d) ==
    LET body == IF d # <<>> /\ d[1] = "+" THEN Tail(d) ELSE d
    IN  body # <<>> /\ \A i \in 1..Len(body) : body[i] \in Digits

RECURSIVE DecimalValue(_)
DecimalValue(body) ==
    IF body = <<>> THEN 0
    ELSE 10 * DecimalValue(SubSeq(body, 1, Len(body) - 1)) + DigitVal(body[Len(body)])

\* the value inside Ok
ParseUsize(d) == DecimalValue(IF d # <<>> /\ d[1] = "+" THEN Tail(d) ELSE d)

\* pp.split(',')
RECURSIVE SplitComma(_)
SplitComma(s) ==
    IF \E i \in 1..Len(s) : s[i] = ","
    THEN LET i == CHOOSE i \in 1..Len(s) : s[i] = "," /\ \A j \in 1..(i - 1) : s[j] # ","
         IN  <<SubSeq(s, 1, i - 1)>> \o SplitComma(SubSeq(s, i + 1, Len(s)))
    ELSE <<s>>

\* pp.split(',').map(|s| s.trim().to_string()).collect()
ParsePeople(pp) == LET parts == SplitComma(pp) IN [i \in 1..Len(parts) |-> Trim(parts[i])]

DefaultFreeSquare == <<"F", "R", "E", "E", " ", "S", "Q", "U", "A", "R", "E">>
DefaultDistanceLimit == 3
DefaultPeople == << <<"A", "l", "i", "c", "e">>, <<"B", "o", "b">> >>

(***************************************************************************)
(* The inputs of a run                                                     *)
(***************************************************************************)
DistChars == {"2", "x"}
PeopleTexts == { <<"A">>, <<SP, "A", SP, ",", "B", SP>>, <<>> }
\* k in bijective base 3 over a, b, c: a, b, c, aa, ab, ...
RECURSIVE Phrase(_)
Phrase(k) ==
    IF k = 0 THEN <<>>
    ELSE LET d == ((k - 1) % 3) + 1
         IN  Phrase((k - d) \div 3) \o << CASE d = 1 -> "a" [] d = 2 -> "b" [] d = 3 -> "c" >>
\* a tiles.txt of n distinct phrases of one to three letters, every seventh of
\* the 39 there are: bb, aac, baa, ...
PhraseFile(n) == [i \in 1..n |-> Phrase(((7 * i) % 39) + 1)]
\* a free-square text that is also a tile phrase
FreeTexts == { Phrase(8) }

ArgValues ==
    {DistPrefix \o d : d \in Str(DistChars, MaxDistLen)}
      \cup {PeoplePrefix \o pp : pp \in PeopleTexts}
      \cup {HelpArg, <<"-", "x">>}
      \cup FreeTexts
ArgLists == Str(ArgValues, MaxArgs)
\* the argument lists that are combined with the long files
SimpleArgs == { << PeoplePrefix \o <<"A">> >> }

LineChars == {"n", SP, BS}
\* every file of up to MaxLines lines: a first line of up to MaxLineLen
\* characters, the lines after it one character shorter
RichFiles ==
    {<<>>} \cup
    {<<first>> \o rest : first \in Str(LineChars, MaxLineLen),
                         rest \in Str(Str(LineChars, MaxLineLen - 1), MaxLines - 1)}
\* a tiles.txt that is read, one that File::open fails on, one that a read fails on
ReadableFile(lines) == [status |-> "ok", lines |-> lines]
BrokenFiles == {[status |-> st, lines |-> <<>>] : st \in {"missing", "unreadable"}}

(***************************************************************************)
(* Orders of a collection                                                  *)
(***************************************************************************)
RECURSIVE SetToSeq(_)
SetToSeq(S) ==
    IF S = {} THEN <<>>
    ELSE LET x == CHOOSE x \in S : TRUE IN <<x>> \o SetToSeq(S \ {x})

Reverse(v) == [i \in 1..Len(v) |-> v[Len(v) + 1 - i]]
Rotations(v) ==
    {[i \in 1..Len(v) |-> v[((i - 1 + r) % Len(v)) + 1]] : r \in 0..(Len(v) - 1)}
\* The rearrangements of v the model draws from: its rotations and their
\* reversals.  They are all the permutations of up to three elements, and for
\* longer v they put every element at every index.
Arrangements(v) ==
    IF v = <<>> THEN {<<>>}
    ELSE Rotations(v) \cup {Reverse(w) : w \in Rotations(v)}

\* tiles.iter().collect::<Vec<_>>(): a HashSet iterates in an arbitrary order,
\* the same one every time the unmodified set is iterated
IterOrders(S) == Arrangements(SetToSeq(S))

\* tiles.shuffle(&mut rng)
Shuffles(v) == Arrangements(v)

(***************************************************************************)
(* generate_for_person                                                     *)
(***************************************************************************)
HEADER_ROWS == 2
LEFT_COLS == 1
CELL_DIMENSIONS == 150
U16 == 65536

\* i as u32 % 5 + HEADER_ROWS (an index of the model is below 2^32)
CellRow(i) == (i % 5) + HEADER_ROWS
\* i as u16 / 5 + LEFT_COLS
CellCol(i) == ((i % U16) \div 5 + LEFT_COLS) % U16

\* the tile loop that writes every tile, the center included
TileWritesNoCenter(deck, fs) ==
    [n \in 1..Len(deck) |->
        [row |-> CellRow(n - 1), col |-> CellCol(n - 1), text |-> deck[n], fmt |-> "dotted"]]

\* the tile loop: the write_string_with_format calls, in order
TileWrites(deck, fs) ==
    [n \in 1..Len(deck) |->
        LET row == CellRow(n - 1)
            col == CellCol(n - 1)
        IN  IF row = 2 + HEADER_ROWS /\ col = 2 + LEFT_COLS
            THEN [row |-> row, col |-> col, text |-> fs, fmt |-> "center"]
            ELSE [row |-> row, col |-> col, text |-> deck[n], fmt |-> "dotted"]]

\* a worksheet that is left with its default name
UnnamedSheet(name, deck, fs) ==
    [name |-> <<"S", "h", "e", "e", "t">>,
     header |-> [row |-> 1, first_col |-> LEFT_COLS, last_col |-> 4 + LEFT_COLS,
                 text |-> <<"SUMO BINGO! - ">> \o name],
     col_widths |-> [c \in {i + LEFT_COLS : i \in 0..4} |-> CELL_DIMENSIONS],
     row_heights |-> [r \in {i + HEADER_ROWS : i \in 0..4} |-> CELL_DIMENSIONS],
     writes |-> TileWrites(deck, fs)]

\* the worksheet generate_for_person leaves in the workbook
Sheet(name, deck, fs) ==
    [name |-> name,
     header |-> [row |-> 1, first_col |-> LEFT_COLS, last_col |-> 4 + LEFT_COLS,
                 text |-> <<"SUMO BINGO! - ">> \o name],
     col_widths |-> [c \in {i + LEFT_COLS : i \in 0..4} |-> CELL_DIMENSIONS],
     row_heights |-> [r \in {i + HEADER_ROWS : i \in 0..4} |-> CELL_DIMENSIONS],
     writes |-> TileWrites(deck, fs)]

\* the calls of generate_for_person whose Err is unwrapped
SheetCalls(deck) ==
    {"set_name", "merge_range", "set_column_width_pixels", "set_row_height_pixels"}
        \cup (IF deck = <<>> THEN {} ELSE {"write_string_with_format"})

(***************************************************************************)
(* check_tiles                                                             *)
(***************************************************************************)
\* a comparison that misses the limit itself
SimilarStrict(dist, limit) == dist < limit
\* dist <= distance_limit
Similar(dist, limit) == dist <= limit

\* an inner loop that starts at i
InnerStartAtI(i) == i
\* for j in i + 1..tiles.len()
InnerStart(i) == i + 1

\* what one comparison prints
Report(a, b, limit) ==
    IF a = b THEN << [kind |-> "duplicate", a |-> a] >>
    ELSE IF Similar(levenshtein(a, b), limit)
         THEN << [kind |-> "similar", dist |-> levenshtein(a, b), a |-> a, b |-> b] >>
         ELSE <<>>

(***************************************************************************)
(* The state of a run                                                      *)
(***************************************************************************)
VARIABLES
    argv,            \* std::env::args().skip(1), as given
    file,            \* tiles.txt
    args,            \* the arguments the loop of main has not yet seen
    pc,              \* where main is
    free_square, distance_limit, people,
    tiles,           \* the HashSet load_tiles returned
    order,           \* the order in which that HashSet iterates
    ci, cj,          \* i and j of check_tiles
    compared,        \* the pairs <<a, b>> check_tiles has compared
    stdout,          \* what has been printed
    underflow,       \* tiles.len() - 1 wrapped around
    workbook,        \* the worksheets of the Workbook
    p,               \* the number of people the loop of main has handled
    saved,           \* bingo.xlsx has been written
    cause            \* which call panicked

vars == <<argv, file, args, pc, free_square, distance_limit, people, tiles, order,
          ci, cj, compared, stdout, underflow, workbook, p, saved, cause>>

\* a panic: the process ends, and with it everything it held in memory
Panic(c) ==
    /\ pc' = "panic"
    /\ cause' = c
    /\ args' = <<>>
    /\ tiles' = {}
    /\ order' = <<>>
    /\ ci' = 0
    /\ cj' = 0
    /\ compared' = <<>>
    /\ workbook' = <<>>
    /\ p' = 0
    /\ UNCHANGED <<argv, file, free_square, distance_limit, people, stdout, underflow, saved>>

Start(a, f, at) ==
    /\ argv = a
    /\ file = f
    /\ args = a
    /\ pc = at
    /\ free_square = DefaultFreeSquare
    /\ distance_limit = DefaultDistanceLimit
    /\ people = DefaultPeople
    /\ tiles = {}
    /\ order = <<>>
    /\ ci = 0
    /\ cj = 0
    /\ compared = <<>>
    /\ stdout = <<>>
    /\ underflow = FALSE
    /\ workbook = <<>>
    /\ p = 0
    /\ saved = FALSE
    /\ cause = "none"

\* a run of the program: every argument list with a short tiles.txt or one that
\* cannot be read, and a one-person run with every length of tiles.txt
Init ==
    \E a \in ArgLists \cup SimpleArgs :
        \E f \in {ReadableFile(PhraseFile(n)) : n \in 0..MaxTiles} \cup BrokenFiles :
            /\ a \in SimpleArgs \/ Len(f.lines) <= SmallTiles
            /\ Start(a, f, "args")

(***************************************************************************)
(* main                                                                    *)
(***************************************************************************)
\* one turn of the loop over the arguments
ParseArg ==
    /\ pc = "args"
    /\ args # <<>>
    /\ LET arg == Head(args) IN
         IF HasPrefix(arg, DistPrefix) THEN
              IF ParsesAsUsize(StripPrefix(arg, DistPrefix))
              THEN /\ distance_limit' = ParseUsize(StripPrefix(arg, DistPrefix))
                   /\ args' = Tail(args)
                   /\ UNCHANGED <<argv, file, pc, free_square, people, tiles, order, ci, cj,
                                  compared, stdout, underflow, workbook, p, saved, cause>>
              ELSE Panic("dist")
         ELSE IF HasPrefix(arg, PeoplePrefix) THEN
              /\ people' = ParsePeople(StripPrefix(arg, PeoplePrefix))
              /\ args' = Tail(args)
              /\ UNCHANGED <<argv, file, pc, free_square, distance_limit, tiles, order, ci, cj,
                             compared, stdout, underflow, workbook, p, saved, cause>>
         ELSE IF arg = HelpArg THEN
              /\ stdout' = Append(stdout, [kind |-> "usage", text |-> UsageText])
              /\ pc' = "returned"
              /\ UNCHANGED <<argv, file, args, free_square, distance_limit, people, tiles,
                             order, ci, cj, compared, underflow, workbook, p, saved, cause>>
         ELSE IF ~HasPrefix(arg, <<"-">>) THEN
              /\ free_square' = arg
              /\ args' = Tail(args)
              /\ UNCHANGED <<argv, file, pc, distance_limit, people, tiles, order, ci, cj,
                             compared, stdout, underflow, workbook, p, saved, cause>>
         ELSE /\ args' = Tail(args)
              /\ UNCHANGED <<argv, file, pc, free_square, distance_limit, people, tiles,
                             order, ci, cj, compared, stdout, underflow, workbook, p, saved,
                             cause>>

\* Workbook::new()
NewWorkbook ==
    /\ pc = "args"
    /\ args = <<>>
    /\ workbook' = <<>>
    /\ pc' = "load"
    /\ UNCHANGED <<argv, file, args, free_square, distance_limit, people, tiles, order, ci,
                   cj, compared, stdout, underflow, p, saved, cause>>

\* a load_tiles that takes a file it cannot open for an empty one
load_tiles_lenient ==
    /\ pc = "load"
    /\ \E o \in IterOrders(CollectTiles(file.lines)) :
          /\ tiles' = CollectTiles(file.lines)
          /\ order' = o
    /\ pc' = "check"
    /\ UNCHANGED <<argv, file, args, free_square, distance_limit, people, ci, cj, compared,
                   stdout, underflow, workbook, p, saved, cause>>

load_tiles ==
    /\ pc = "load"
    /\ IF file.status = "missing" THEN Panic("open")
       ELSE IF file.status = "unreadable" THEN Panic("read")
       ELSE /\ \E o \in IterOrders(CollectTiles(file.lines)) :
                  /\ tiles' = CollectTiles(file.lines)
                  /\ order' = o
            /\ pc' = "check"
            /\ UNCHANGED <<argv, file, args, free_square, distance_limit, people, ci, cj,
                           compared, stdout, underflow, workbook, p, saved, cause>>

\* check_tiles up to its first comparison.  tiles.len() - 1 of an empty set
\* panics where overflow checks are compiled in and wraps to usize::MAX where
\* they are not.
check_tiles_enter ==
    /\ pc = "check"
    /\ IF Len(order) = 0 THEN
            \/ Panic("underflow")
            \/ /\ underflow' = TRUE
               /\ pc' = "check_spin"
               /\ UNCHANGED <<argv, file, args, free_square, distance_limit, people, tiles,
                              order, ci, cj, compared, stdout, workbook, p, saved, cause>>
       ELSE IF 0 < Len(order) - 1 THEN
            /\ ci' = 0
            /\ cj' = InnerStart(0)
            /\ pc' = "check_loop"
            /\ UNCHANGED <<argv, file, args, free_square, distance_limit, people, tiles,
                           order, compared, stdout, underflow, workbook, p, saved, cause>>
       ELSE /\ pc' = "gen"
            /\ UNCHANGED <<argv, file, args, free_square, distance_limit, people, tiles,
                           order, ci, cj, compared, stdout, underflow, workbook, p, saved,
                           cause>>

\* the outer loop over 0..usize::MAX of an empty set: every inner range
\* i + 1..0 is empty, nothing is compared and no index is read
check_tiles_spin ==
    /\ pc = "check_spin"
    /\ pc' = "gen"
    /\ UNCHANGED <<argv, file, args, free_square, distance_limit, people, tiles, order, ci,
                   cj, compared, stdout, underflow, workbook, p, saved, cause>>

\* one turn of the inner loop, and the step to the next pair
check_tiles_compare ==
    /\ pc = "check_loop"
    /\ LET a == order[ci + 1]
           b == order[cj + 1]
       IN  /\ compared' = Append(compared, <<a, b>>)
           /\ stdout' = stdout \o Report(a, b, distance_limit)
    /\ IF cj + 1 < Len(order)
       THEN /\ cj' = cj + 1
            /\ UNCHANGED <<ci, pc>>
       ELSE IF ci + 1 < Len(order) - 1
            THEN /\ ci' = ci + 1
                 /\ cj' = InnerStart(ci + 1)
                 /\ pc' = pc
            ELSE /\ pc' = "gen"
                 /\ UNCHANGED <<ci, cj>>
    /\ UNCHANGED <<argv, file, args, free_square, distance_limit, people, tiles, order,
                   underflow, workbook, p, saved, cause>>

\* one turn of the loop over the people: generate_for_person
generate_for_person ==
    /\ pc = "gen"
    /\ p < Len(people)
    /\ \E deck \in Shuffles(order) :
         \E err \in {"none"} \cup SheetCalls(deck) :
            IF err = "none"
            THEN /\ workbook' = Append(workbook, Sheet(people[p + 1], deck, free_square))
                 /\ p' = p + 1
                 /\ UNCHANGED <<argv, file, args, pc, free_square, distance_limit, people,
                                tiles, order, ci, cj, compared, stdout, underflow, saved,
                                cause>>
            ELSE Panic(err)

\* workbook.save("bingo.xlsx").unwrap()
save ==
    /\ pc = "gen"
    /\ p = Len(people)
    /\ \E ok \in BOOLEAN :
          IF ok
          THEN /\ saved' = TRUE
               /\ pc' = "done"
               /\ UNCHANGED <<argv, file, args, free_square, distance_limit, people, tiles,
                              order, ci, cj, compared, stdout, underflow, workbook, p, cause>>
          ELSE Panic("save")

Next ==
    \/ ParseArg
    \/ NewWorkbook
    \/ load_tiles
    \/ check_tiles_enter
    \/ check_tiles_spin
    \/ check_tiles_compare
    \/ generate_for_person
    \/ save

Spec == Init /\ [][Next]_vars

(***************************************************************************)
(* load_tiles on its own, over every short file of short lines             *)
(***************************************************************************)
InitLoad ==
    \E f \in {ReadableFile(l) : l \in RichFiles} \cup BrokenFiles :
        Start(<<>>, f, "load")

NextLoad == load_tiles

SpecLoad == InitLoad /\ [][NextLoad]_vars

(***************************************************************************)
(* Properties                                                              *)
(***************************************************************************)
NoPeopleArg == \A n \in 1..Len(argv) : ~HasPrefix(argv[n], PeoplePrefix)
BadDistArg ==
    \E n \in 1..Len(argv) :
        /\ HasPrefix(argv[n], DistPrefix)
        /\ ~ParsesAsUsize(StripPrefix(argv[n], DistPrefix))
\* check_tiles has returned
Checked == pc \in {"gen", "done"}
\* the number of unordered pairs of n things
Pairs(n) == (n * (n - 1)) \div 2
NearDuplicates ==
    {pr \in tiles \X tiles : pr[1] # pr[2] /\ levenshtein(pr[1], pr[2]) <= distance_limit}
\* the pairs of tiles that check_tiles has printed as similar
ReportedPairs ==
    {{stdout[n].a, stdout[n].b} : n \in {m \in 1..Len(stdout) : stdout[m].kind = "similar"}}
\* check_tiles has just returned: generate_for_person is about to be invoked
\* for the first person
FirstInvocation == pc = "gen" /\ p = 0
\* the cell is one of the 5x5 that generate_for_person has sized
InGrid(sheet, w) == w.row \in DOMAIN sheet.row_heights /\ w.col \in DOMAIN sheet.col_widths
IsCenter(w) == w.row = 2 + HEADER_ROWS /\ w.col = 2 + LEFT_COLS
\* how many cells of the sheet the tile t was written to
TimesWritten(sheet, t) ==
    Cardinality({n \in 1..Len(sheet.writes) :
                    sheet.writes[n].fmt = "dotted" /\ sheet.writes[n].text = t})

\* C1 (as claimed): every cell the tile loop of generate_for_person writes lies
\* in the 5x5 grid, rows HEADER_ROWS..HEADER_ROWS+4 and columns
\* LEFT_COLS..LEFT_COLS+4, whatever the size of the tile set.
C1_WritesInsideGrid ==
    \A k \in 1..Len(workbook) :
        \A n \in 1..Len(workbook[k].writes) :
            /\ InGrid(workbook[k], workbook[k].writes[n])
            /\ workbook[k].writes[n].row \in HEADER_ROWS..(HEADER_ROWS + 4)
            /\ workbook[k].writes[n].col \in LEFT_COLS..(LEFT_COLS + 4)

\* C2 (as claimed): after generate_for_person returns, the center cell of the
\* person's grid holds the free-square text and no tile phrase, whatever the
\* tile set.
C2_CenterHoldsFreeSquare ==
    \A k \in 1..Len(workbook) :
        /\ \E n \in 1..Len(workbook[k].writes) :
              /\ IsCenter(workbook[k].writes[n])
              /\ workbook[k].writes[n].text = free_square
        /\ \A n \in 1..Len(workbook[k].writes) :
              IsCenter(workbook[k].writes[n]) => workbook[k].writes[n].fmt = "center"

\* C3 (as claimed): whenever generate_for_person is invoked or bingo.xlsx is
\* saved, the tile set holds no two distinct tiles within distance_limit.
C3_NoNearDuplicatesWhenGenerating ==
    (pc = "gen" \/ saved) => NearDuplicates = {}

\* C3 (amended): generate_for_person is invoked and bingo.xlsx is saved only
\* after check_tiles has completed, and when check_tiles returns it has reported
\* every two distinct tiles within distance_limit; the cards are generated
\* whether or not it reported any.
C3_NearDuplicatesReportedBeforeGenerating ==
    /\ (workbook # <<>> \/ saved) => Checked
    /\ Checked => (tiles # {} => Len(compared) = Pairs(Cardinality(tiles)))
    /\ FirstInvocation =>
          LET reported == ReportedPairs
          IN  /\ {order[n] : n \in 1..Len(order)} = tiles
              /\ \A n \in 1..Len(order) : \A m \in (n + 1)..Len(order) :
                    (order[n] # order[m]
                        /\ levenshtein(order[n], order[m]) <= distance_limit)
                    => {order[n], order[m]} \in reported

C3_Witness ==
    /\ saved
    /\ workbook # <<>>
    /\ NearDuplicates # {}

\* C4 (as claimed): on each person's card every tile of the loaded set is
\* written to exactly one cell, so no tile is left off the card.
C4_EveryTileWrittenOnce ==
    \A k \in 1..Len(workbook) :
        \A t \in tiles : TimesWritten(workbook[k], t) = 1

\* C4 (amended): on each person's card, for a tile set of at most 65536 tiles,
\* no cell receives two writes, no tile is written to two cells, and every tile
\* is written to exactly one cell except, when the set has 13 tiles or more, the
\* one tile that the shuffle puts at index 12: it is left off the card, and its
\* cell receives the free-square text.
C4_EveryTileButTheReservedOneWrittenOnce ==
    \A k \in 1..Len(workbook) :
        LET sheet == workbook[k]
            cells == {<<sheet.writes[n].row, sheet.writes[n].col>> : n \in 1..Len(sheet.writes)}
            tile_writes == {n \in 1..Len(sheet.writes) : sheet.writes[n].fmt = "dotted"}
            written == {sheet.writes[n].text : n \in tile_writes}
        IN  /\ Len(sheet.writes) = Cardinality(tiles)
            /\ Cardinality(cells) = Len(sheet.writes)
            /\ Cardinality(written) = Cardinality(tile_writes)
            /\ written \subseteq tiles
            /\ \A n \in 1..Len(sheet.writes) :
                  n \notin tile_writes <=> n = 13
            /\ Cardinality(tiles) >= 13 =>
                  /\ sheet.writes[13].text = free_square
                  /\ Cardinality(tiles \ written) = 1
            /\ Cardinality(tiles) < 13 => written = tiles

C4_Witness ==
    /\ pc = "done"
    /\ Cardinality(tiles) >= 13
    /\ \E k \in 1..Len(workbook) : \E t \in tiles : TimesWritten(workbook[k], t) = 0

C6_OnlyPairsBelowTheMinimumReported ==
    \A n \in 1..Len(stdout) :
        stdout[n].kind = "similar" => stdout[n].dist < distance_limit

\* C8: after the loop over the people the workbook holds one worksheet per
\* person, the k-th named after the k-th person, and without --people the
\* people are Alice and Bob.
C8_OneWorksheetPerPerson ==
    /\ pc \in {"gen", "done"} =>
          /\ Len(workbook) = p
          /\ p <= Len(people)
          /\ \A k \in 1..Len(workbook) : workbook[k].name = people[k]
    /\ pc = "done" => Len(workbook) = Len(people)
    /\ (NoPeopleArg /\ pc \in {"load", "check", "check_loop", "check_spin", "gen", "done"})
          => people = << <<"A", "l", "i", "c", "e">>, <<"B", "o", "b">> >>

C8_Witness ==
    /\ pc = "done"
    /\ NoPeopleArg
    /\ Len(workbook) = 2
    /\ workbook[2].name = <<"B", "o", "b">>

\* C9: a --dist value that is no unsigned integer, a tiles.txt that cannot be
\* opened or read, or a failing worksheet call aborts the run, and bingo.xlsx is
\* never saved then; it is saved only as the last step, after check_tiles and
\* generate_for_person for every person.
C9_SavedOnlyAfterEverythingSucceeded ==
    /\ BadDistArg => ~saved
    /\ file.status # "ok" => ~saved
    /\ cause # "none" => pc = "panic" /\ ~saved
    /\ pc = "panic" => cause # "none"
    /\ saved =>
          /\ pc = "done"
          /\ args = <<>>
          /\ tiles # {} => Len(compared) = Pairs(Cardinality(tiles))
          /\ p = Len(people)
          /\ Len(workbook) = Len(people)

C9_Witness ==
    /\ pc = "panic"
    /\ BadDistArg
    /\ cause = "dist"
    /\ ~saved

\* C10: check_tiles completes normally for every size of the tile set, the
\* empty set included: tiles.len() - 1 never underflows, and the loops end
\* after n*(n-1)/2 comparisons.
C10_CheckTilesNeverUnderflows ==
    /\ ~underflow
    /\ cause # "underflow"
    /\ Checked => Len(compared) = Pairs(Cardinality(tiles))

\* the part of a line between its first and its last character that is not
\* whitespace (nothing, when it has none)
Trimmed(line) ==
    LET solid == {n \in 1..Len(line) : ~IsWhite(line[n])}
    IN  IF solid = {} THEN <<>>
        ELSE SubSeq(line, CHOOSE n \in solid : \A m \in solid : n <= m,
                          CHOOSE n \in solid : \A m \in solid : m <= n)
\* a tile with every newline character written back as backslash, 'n'
RECURSIVE Escaped(_)
Escaped(t) ==
    IF t = <<>> THEN <<>>
    ELSE (IF t[1] = NL THEN <<BS, "n">> ELSE <<t[1]>>) \o Escaped(Tail(t))
HasEscape(t) == \E n \in 1..(Len(t) - 1) : t[n] = BS /\ t[n + 1] = "n"

\* C7: load_tiles returns exactly the lines of tiles.txt, trimmed, then with
\* every backslash-'n' turned into a newline, the empty ones dropped; lines that
\* normalize alike give one tile, and no tile is empty or still holds a
\* backslash-'n'.
C7_LoadTilesNormalizes ==
    pc = "check" =>
        /\ \A t \in tiles : t # <<>> /\ ~HasEscape(t)
        /\ {Escaped(t) : t \in tiles}
              = {Trimmed(file.lines[n]) : n \in 1..Len(file.lines)} \ {<<>>}
        /\ Cardinality({Escaped(t) : t \in tiles}) = Cardinality(tiles)
        /\ {order[n] : n \in 1..Len(order)} = tiles
        /\ Len(order) = Cardinality(tiles)

C7_Witness ==
    /\ pc = "check"
    /\ Cardinality(tiles) < Len(file.lines)
    /\ \E n \in 1..Len(file.lines) :
          /\ file.lines[n] # <<>>
          /\ IsWhite(file.lines[n][1])
          /\ HasEscape(file.lines[n])
          /\ Trimmed(file.lines[n]) \notin tiles
          /\ <<NL>> \in tiles

====
